---- MODULE Spec2Model ----
(***************************************************************************)
(* CustomConsole (packages/jest-console/src/CustomConsole.ts): a console   *)
(* that indents by group depth, keeps named counters and timers, and       *)
(* routes every line through a format hook to stdout or stderr.            *)
(*                                                                         *)
(* Texts are sequences of chunks (strings); Flatten joins them.  JavaScript *)
(* values are records [t, s, n]: a type tag, a string and a number payload. *)
(* stdout and stderr hold what the latest call appended to each stream;     *)
(* call and pre record that call and the state it found.                    *)
(*                                                                         *)
(* Spec runs every method with the label left out; SpecCount and SpecTime   *)
(* run the counter and the timer methods under every label of LabelArgs.    *)
(***************************************************************************)
EXTENDS Integers, Sequences, FiniteSets, TLC

(* ------------------------------ bounds --------------------------------- *)
MaxDepth == 2          \* group and groupCollapsed are called below this depth
MaxExtraEnds == 1      \* groupEnd calls made at depth 0 in a run
MaxCount == 2          \* count(L) calls per label between two countReset(L)
MaxNow == 2            \* clock instants 0..MaxNow (milliseconds)

(* ------------------------------- state --------------------------------- *)
VARIABLES
  groupDepth,    \* this._groupDepth
  counters,      \* this._counters: own properties, label -> value
  timers,        \* this._timers: own properties, label -> Date
  formatBuffer,  \* this._formatBuffer: the hook given to the constructor
  chalkBold,     \* whether chalk emits escape codes on this terminal
  now,           \* the wall clock read by new Date()
  stdout,        \* what the latest call appended to this._stdout
  stderr,        \* what the latest call appended to this._stderr
  thrown,        \* whether the latest call raised to its caller
  call,          \* the latest call: [op, arg, rest]
  pre,           \* groupDepth, counters, timers, clock and started when it was made
  countCalls,    \* label -> count(label) calls since the latest countReset(label)
  started,       \* label -> instant of the first time(label) call since the latest timeEnd(label), or -1
  net,           \* group and groupCollapsed calls so far minus groupEnd calls so far
  low,           \* the lowest value net has had so far
  scen           \* how many calls of Scenario the run so far is, or -1

vars == <<groupDepth, counters, timers, formatBuffer, chalkBold, now, stdout,
          stderr, thrown, call, pre, countCalls, started, net, low, scen>>

(* -------------------------- JavaScript values -------------------------- *)
Undefined == [t |-> "undefined", s |-> "", n |-> 0]
Str(x) == [t |-> "string", s |-> x, n |-> 0]
Num(k) == [t |-> "number", s |-> "", n |-> k]
NaN == [t |-> "number", s |-> "NaN", n |-> 0]
Bool(b) == [t |-> "boolean", s |-> "", n |-> IF b THEN 1 ELSE 0]
Fn(name) == [t |-> "function", s |-> name, n |-> 0]
DateAt(ms) == [t |-> "date", s |-> "", n |-> ms]
Err(msg) == [t |-> "error", s |-> msg, n |-> 0]

\* ToBoolean: what `if (x)` and `!x` test.
Truthy(x) ==
  CASE x.t = "undefined" -> FALSE
    [] x.t = "boolean" -> x.n = 1
    [] x.t = "number" -> x.s # "NaN" /\ x.n # 0
    [] x.t = "string" -> x.s # ""
    [] OTHER -> TRUE

\* String(x), as a template literal or util.format renders a value.
ToStr(x) ==
  CASE x.t = "undefined" -> "undefined"
    [] x.t = "boolean" -> IF x.n = 1 THEN "true" ELSE "false"
    [] x.t = "number" -> IF x.s = "NaN" THEN "NaN" ELSE ToString(x.n)
    [] x.t = "string" -> x.s
    [] OTHER -> x.s

\* ++x on a property value: ToNumber(x) + 1.
Increment(x) ==
  IF x.t = "number" /\ x.s # "NaN" THEN Num(x.n + 1) ELSE NaN

\* Names every plain object inherits from Object.prototype.
ObjectPrototypeKeys == {"toString", "valueOf", "constructor", "hasOwnProperty"}

\* obj[key] on a plain object {}: own property, else the inherited one.
Get(obj, key) ==
  IF key \in DOMAIN obj THEN obj[key]
  ELSE IF key \in ObjectPrototypeKeys THEN Fn(key)
  ELSE Undefined

\* obj[key] = value
Put(obj, key, value) ==
  [k \in DOMAIN obj \cup {key} |-> IF k = key THEN value ELSE obj[k]]

\* delete obj[key]
Delete(obj, key) == [k \in DOMAIN obj \ {key} |-> obj[k]]

EmptyObject == [k \in {} |-> Undefined]

(* ------------------------------- texts --------------------------------- *)
RECURSIVE Flatten(_)
Flatten(text) ==
  IF text = <<>> THEN "" ELSE Head(text) \o Flatten(Tail(text))

RECURSIVE JoinArgs(_)
JoinArgs(args) ==
  IF args = <<>> THEN <<>> ELSE <<" ", ToStr(Head(args))>> \o JoinArgs(Tail(args))

\* util.format(first, ...args) for arguments without % specifiers:
\* the arguments rendered and joined by single spaces.
format(first, args) == <<ToStr(first)>> \o JoinArgs(args)

BoldOpen == "\\x1b[1m"
BoldClose == "\\x1b[22m"

\* chalk.bold: wraps the text in the bold escape codes when the terminal
\* supports colours, and returns it unchanged otherwise.
bold(text) == IF chalkBold THEN <<BoldOpen>> \o text \o <<BoldClose>> ELSE text

\* Faulty variant of repeat: one space per level.
RECURSIVE repeatOneSpace(_)
repeatOneSpace(depth) == IF depth <= 0 THEN <<>> ELSE <<" ">> \o repeatOneSpace(depth - 1)

\* '  '.repeat(depth)
RECURSIVE repeat(_)
repeat(depth) == IF depth <= 0 THEN <<>> ELSE <<"  ">> \o repeat(depth - 1)

\* util.inspect of a primitive: strings are quoted.
inspect(x) == IF x.t = "string" THEN "'" \o x.s \o "'" ELSE ToStr(x)

\* jest-util formatTime(time) with its default prefix (milliseconds).
formatTime(time) == ToString(time) \o " ms"

\* The format hooks a logger is constructed with: the default (identity) and
\* one that tags each line with its kind.
Hooks == {"identity", "tag"}
_formatBuffer(type, message) ==
  IF formatBuffer = "identity" THEN message
  ELSE <<"[" \o type \o "] ">> \o message

(* ------------------------------- sinks --------------------------------- *)
\* What a call appends to a stream: clearLine(stream), then one written line.
ClearLine == [ev |-> "clearLine", text |-> <<>>]
Write(text) == [ev |-> "write", text |-> text]

\* Faulty variant of _log: the hook is applied before the indentation.
_logHookFirst(type, message, depth) ==
  <<ClearLine, Write(repeat(depth) \o _formatBuffer(type, message))>>

\* _log(type, message) with this._groupDepth = depth: the events on stdout.
_log(type, message, depth) ==
  <<ClearLine, Write(_formatBuffer(type, repeat(depth) \o message))>>

\* Faulty variant of _logError: the line is not cleared first.
_logErrorNoClear(type, message, depth) ==
  <<Write(_formatBuffer(type, repeat(depth) \o message))>>

\* _logError(type, message) with this._groupDepth = depth: the events on stderr.
_logError(type, message, depth) ==
  <<ClearLine, Write(_formatBuffer(type, repeat(depth) \o message))>>

(* ------------------------------- inputs -------------------------------- *)
\* Labels as callers pass them: omitted, an ordinary one, and one that names
\* a property every object inherits.
LabelArgs == {Undefined, Str("a"), Str("toString")}
Labels == {"default", "a", "toString"}

\* label: string = 'default'
DefaultLabel(arg) == IF arg = Undefined THEN "default" ELSE arg.s

LogArgs == {<<Str("hello")>>, <<Str("world")>>, <<Str("done")>>, <<Str("n"), Num(1)>>}
OtherArgs == {<<Str("msg"), Num(1)>>}
GroupArgs == {<<Undefined>>, <<Str("")>>, <<Str("outer")>>, <<Str("inner")>>, <<Undefined, Str("x")>>}
AssertValues == {Bool(TRUE), Bool(FALSE), Num(0)}
AssertMessages == {Undefined, Str("boom"), Err("boom")}
TimeLogData == {<<>>, <<Str("x")>>}

\* The example run of the specification, call by call.
Scenario ==
  << [op |-> "group", arg |-> Str("outer"), rest |-> <<>>],
     [op |-> "log", arg |-> Str("hello"), rest |-> <<>>],
     [op |-> "group", arg |-> Str("inner"), rest |-> <<>>],
     [op |-> "log", arg |-> Str("world"), rest |-> <<>>],
     [op |-> "groupEnd", arg |-> Undefined, rest |-> <<>>],
     [op |-> "groupEnd", arg |-> Undefined, rest |-> <<>>],
     [op |-> "log", arg |-> Str("done"), rest |-> <<>>] >>

(* ----------------------------- construction ---------------------------- *)
Init ==
  /\ groupDepth = 0
  /\ counters = EmptyObject
  /\ timers = EmptyObject
  /\ formatBuffer \in Hooks
  /\ chalkBold \in BOOLEAN
  /\ now = 0
  /\ stdout = <<>>
  /\ stderr = <<>>
  /\ thrown = FALSE
  /\ call = [op |-> "constructor", arg |-> Undefined, rest |-> <<>>]
  /\ pre = [groupDepth |-> 0, counters |-> EmptyObject, timers |-> EmptyObject,
            now |-> 0, started |-> [l \in Labels |-> -1]]
  /\ countCalls = [l \in Labels |-> 0]
  /\ started = [l \in Labels |-> -1]
  /\ net = 0
  /\ low = 0
  /\ scen = 0

\* Bookkeeping common to every call: the call, the state it found, and
\* whether the run is still the example run.
Made(op, arg, rest) ==
  /\ call' = [op |-> op, arg |-> arg, rest |-> rest]
  /\ pre' = [groupDepth |-> groupDepth, counters |-> counters, timers |-> timers,
             now |-> now, started |-> started]
  /\ scen' = IF scen >= 0 /\ scen < Len(Scenario)
                /\ Scenario[scen + 1] = [op |-> op, arg |-> arg, rest |-> rest]
             THEN scen + 1 ELSE -1
  /\ UNCHANGED <<formatBuffer, chalkBold, now>>

(* ------------------------------ operations ----------------------------- *)
\* log, info, debug, dirxml: this._log(kind, format(firstArg, ...args))
log ==
  \E a \in LogArgs :
    /\ Made("log", Head(a), Tail(a))
    /\ stdout' = _log("log", format(Head(a), Tail(a)), groupDepth)
    /\ stderr' = <<>> /\ thrown' = FALSE
    /\ UNCHANGED <<groupDepth, counters, timers, countCalls, started, net, low>>

info ==
  \E a \in OtherArgs :
    /\ Made("info", Head(a), Tail(a))
    /\ stdout' = _log("info", format(Head(a), Tail(a)), groupDepth)
    /\ stderr' = <<>> /\ thrown' = FALSE
    /\ UNCHANGED <<groupDepth, counters, timers, countCalls, started, net, low>>

debug ==
  \E a \in OtherArgs :
    /\ Made("debug", Head(a), Tail(a))
    /\ stdout' = _log("debug", format(Head(a), Tail(a)), groupDepth)
    /\ stderr' = <<>> /\ thrown' = FALSE
    /\ UNCHANGED <<groupDepth, counters, timers, countCalls, started, net, low>>

dirxml ==
  \E a \in OtherArgs :
    /\ Made("dirxml", Head(a), Tail(a))
    /\ stdout' = _log("dirxml", format(Head(a), Tail(a)), groupDepth)
    /\ stderr' = <<>> /\ thrown' = FALSE
    /\ UNCHANGED <<groupDepth, counters, timers, countCalls, started, net, low>>

\* dir(firstArg, options): this._log('dir', formatWithOptions(options, inspect(firstArg, options)))
dir ==
  \E a \in {Str("msg")} :
    /\ Made("dir", a, <<>>)
    /\ stdout' = _log("dir", <<inspect(a)>>, groupDepth)
    /\ stderr' = <<>> /\ thrown' = FALSE
    /\ UNCHANGED <<groupDepth, counters, timers, countCalls, started, net, low>>

\* error, warn: this._logError(kind, format(firstArg, ...args))
error ==
  \E a \in OtherArgs :
    /\ Made("error", Head(a), Tail(a))
    /\ stderr' = _logError("error", format(Head(a), Tail(a)), groupDepth)
    /\ stdout' = <<>> /\ thrown' = FALSE
    /\ UNCHANGED <<groupDepth, counters, timers, countCalls, started, net, low>>

warn ==
  \E a \in OtherArgs :
    /\ Made("warn", Head(a), Tail(a))
    /\ stderr' = _logError("warn", format(Head(a), Tail(a)), groupDepth)
    /\ stdout' = <<>> /\ thrown' = FALSE
    /\ UNCHANGED <<groupDepth, counters, timers, countCalls, started, net, low>>

\* Node's assert(value, message): the error it throws on a falsy value,
\* rendered by error.toString(); message itself when it is an Error.
GeneratedMessage == "The expression evaluated to a falsy value:\\n\\n  assert(value, message)\\n"
errorToString(message) ==
  CASE message.t = "error" -> <<"Error", ": ", message.s>>
    [] message.t = "undefined" -> <<"AssertionError [ERR_ASSERTION]", ": ", GeneratedMessage>>
    [] OTHER -> <<"AssertionError [ERR_ASSERTION]", ": ", ToStr(message)>>

\* Faulty variant of assert: the failure is logged with kind "error".
assertStderrAsError(value, message, depth) ==
  IF Truthy(value) THEN <<>>
  ELSE _logError("error", errorToString(message), depth)

\* assert(value, message): try { assert(value, message) } catch (error) { this._logError('assert', error.toString()) }
assertStderr(value, message, depth) ==
  IF Truthy(value) THEN <<>>
  ELSE _logError("assert", errorToString(message), depth)

assert ==
  \E v \in AssertValues, m \in AssertMessages :
    /\ Made("assert", v, <<m>>)
    /\ stderr' = assertStderr(v, m, groupDepth)
    /\ stdout' = <<>> /\ thrown' = FALSE
    /\ UNCHANGED <<groupDepth, counters, timers, countCalls, started, net, low>>

\* `${label}: ${value}`
Template(label, value) == <<label, ": ", value>>

\* count(label): if (!this._counters[label]) this._counters[label] = 0;
\* then ++this._counters[label].
countCounters(c, label) ==
  LET c0 == IF ~Truthy(Get(c, label)) THEN Put(c, label, Num(0)) ELSE c
  IN  Put(c0, label, Increment(Get(c0, label)))

count(arg) ==
    LET label == DefaultLabel(arg) IN
    /\ countCalls[label] < MaxCount
    /\ Made("count", arg, <<>>)
    /\ counters' = countCounters(counters, label)
    /\ stdout' = _log("count", Template(label, ToStr(Get(counters', label))), groupDepth)
    /\ stderr' = <<>> /\ thrown' = FALSE
    /\ countCalls' = [countCalls EXCEPT ![label] = @ + 1]
    /\ UNCHANGED <<groupDepth, timers, started, net, low>>

\* countReset(label): this._counters[label] = 0
countResetCounters(c, label) == Put(c, label, Num(0))

countReset(arg) ==
    LET label == DefaultLabel(arg) IN
    /\ Made("countReset", arg, <<>>)
    /\ counters' = countResetCounters(counters, label)
    /\ stdout' = <<>> /\ stderr' = <<>> /\ thrown' = FALSE
    /\ countCalls' = [countCalls EXCEPT ![label] = 0]
    /\ UNCHANGED <<groupDepth, timers, started, net, low>>

\* group / groupCollapsed: this._groupDepth++, then the title line, if any,
\* at the new depth.
groupDepthAfter(depth) == depth + 1

groupStdout(kind, title, args, depth) ==
  IF Truthy(title) \/ Len(args) > 0
  THEN _log(kind, bold(format(title, args)), groupDepthAfter(depth))
  ELSE <<>>

group ==
  \E a \in GroupArgs :
    LET title == Head(a)
        args == Tail(a)
    IN
    /\ groupDepth < MaxDepth
    /\ Made("group", title, args)
    /\ groupDepth' = groupDepthAfter(groupDepth)
    /\ stdout' = groupStdout("group", title, args, groupDepth)
    /\ stderr' = <<>> /\ thrown' = FALSE
    /\ net' = net + 1
    /\ UNCHANGED <<counters, timers, countCalls, started, low>>

groupCollapsed ==
  \E a \in GroupArgs :
    LET title == Head(a)
        args == Tail(a)
    IN
    /\ groupDepth < MaxDepth
    /\ Made("groupCollapsed", title, args)
    /\ groupDepth' = groupDepthAfter(groupDepth)
    /\ stdout' = groupStdout("groupCollapsed", title, args, groupDepth)
    /\ stderr' = <<>> /\ thrown' = FALSE
    /\ net' = net + 1
    /\ UNCHANGED <<counters, timers, countCalls, started, low>>

\* Faulty variants of groupEnd: a guard off by one, and no guard.
groupEndDepthAboveOne(depth) == IF depth > 1 THEN depth - 1 ELSE depth
groupEndDepthAlways(depth) == depth - 1

\* groupEnd: if (this._groupDepth > 0) this._groupDepth--
groupEndDepth(depth) == IF depth > 0 THEN depth - 1 ELSE depth

groupEnd ==
  /\ net > -MaxExtraEnds
  /\ Made("groupEnd", Undefined, <<>>)
  /\ groupDepth' = groupEndDepth(groupDepth)
  /\ stdout' = <<>> /\ stderr' = <<>> /\ thrown' = FALSE
  /\ net' = net - 1
  /\ low' = IF net - 1 < low THEN net - 1 ELSE low
  /\ UNCHANGED <<counters, timers, countCalls, started>>

\* Faulty variant of time: a running timer is restarted.
timeTimersRestart(t, label, instant) == Put(t, label, DateAt(instant))

\* time(label): if (this._timers[label]) return; this._timers[label] = new Date()
timeTimers(t, label, instant) ==
  IF Truthy(Get(t, label)) THEN t ELSE Put(t, label, DateAt(instant))

time(arg) ==
    LET label == DefaultLabel(arg) IN
    /\ Made("time", arg, <<>>)
    /\ timers' = timeTimers(timers, label, now)
    /\ stdout' = <<>> /\ stderr' = <<>> /\ thrown' = FALSE
    /\ started' = [started EXCEPT ![label] = IF @ = -1 THEN now ELSE @]
    /\ UNCHANGED <<groupDepth, counters, countCalls, net, low>>

\* startTime.getTime() raises a TypeError when startTime is no Date.
getTimeThrows(startTime) == startTime.t # "date"

\* timeEnd(label)
timeEndTimers(t, label) == Delete(t, label)

timeEnd(arg) ==
    LET label == DefaultLabel(arg)
        startTime == Get(timers, label)
    IN
    /\ Made("timeEnd", arg, <<>>)
    /\ stderr' = <<>>
    /\ started' = [started EXCEPT ![label] = -1]
    /\ UNCHANGED <<groupDepth, counters, countCalls, net, low>>
    /\ IF ~Truthy(startTime)
       THEN stdout' = <<>> /\ thrown' = FALSE /\ UNCHANGED timers
       ELSE IF getTimeThrows(startTime)
       THEN stdout' = <<>> /\ thrown' = TRUE /\ UNCHANGED timers
       ELSE /\ stdout' = _log("time", Template(label, formatTime(now - startTime.n)), groupDepth)
            /\ timers' = timeEndTimers(timers, label)
            /\ thrown' = FALSE

\* Faulty variant of timeLog: the timer is removed, as timeEnd does.
timeLogTimersRemove(t, label) == Delete(t, label)

\* timeLog(label, ...data): the timer is left in place
timeLogTimers(t, label) == t

timeLog(arg, data) ==
    LET label == DefaultLabel(arg)
        startTime == Get(timers, label)
    IN
    /\ Made("timeLog", arg, data)
    /\ stderr' = <<>>
    /\ UNCHANGED <<groupDepth, counters, countCalls, started, net, low>>
    /\ IF ~Truthy(startTime)
       THEN stdout' = <<>> /\ thrown' = FALSE /\ UNCHANGED timers
       ELSE IF getTimeThrows(startTime)
       THEN stdout' = <<>> /\ thrown' = TRUE /\ UNCHANGED timers
       ELSE /\ stdout' = _log("time", Template(label, formatTime(now - startTime.n)) \o JoinArgs(data), groupDepth)
            /\ timers' = timeLogTimers(timers, label)
            /\ thrown' = FALSE

\* getBuffer(): returns undefined
getBuffer ==
  /\ Made("getBuffer", Undefined, <<>>)
  /\ stdout' = <<>> /\ stderr' = <<>> /\ thrown' = FALSE
  /\ UNCHANGED <<groupDepth, counters, timers, countCalls, started, net, low>>

\* The wall clock advances between calls.
Tick ==
  /\ now < MaxNow
  /\ now' = now + 1
  /\ UNCHANGED <<groupDepth, counters, timers, formatBuffer, chalkBold, stdout,
                 stderr, thrown, call, pre, countCalls, started, net, low, scen>>

(* --------------------------- specifications ---------------------------- *)
\* Every operation, with the label left out (so it is "default").
Next ==
  \/ log \/ info \/ debug \/ dirxml \/ dir \/ error \/ warn \/ assert
  \/ count(Undefined) \/ countReset(Undefined)
  \/ group \/ groupCollapsed \/ groupEnd
  \/ time(Undefined) \/ timeEnd(Undefined)
  \/ \E data \in TimeLogData : timeLog(Undefined, data)
  \/ getBuffer \/ Tick

Spec == Init /\ [][Next]_vars

\* The counters under every label, inside and outside groups.
NextCount ==
  \/ \E arg \in LabelArgs : count(arg)
  \/ \E arg \in LabelArgs : countReset(arg)
  \/ group \/ groupEnd

SpecCount == Init /\ [][NextCount]_vars

\* The timers under every label, inside and outside groups, as time passes.
NextTime ==
  \/ \E arg \in LabelArgs : time(arg)
  \/ \E arg \in LabelArgs : timeEnd(arg)
  \/ \E arg \in LabelArgs, data \in TimeLogData : timeLog(arg, data)
  \/ group \/ groupEnd \/ Tick

SpecTime == Init /\ [][NextTime]_vars

(* ------------------------- reading the streams -------------------------- *)
\* The label the latest call is about.
CallLabel == DefaultLabel(call.arg)

\* The kind a method hands to the format hook.
KindOf(op) == IF op \in {"timeEnd", "timeLog"} THEN "time" ELSE op

\* The texts written to a stream, in order.
Lines(stream) ==
  LET written == SelectSeq(stream, LAMBDA e : e.ev = "write")
  IN  [i \in 1..Len(written) |-> written[i].text]

\* A text without its styling codes.
Strip(text) == SelectSeq(text, LAMBDA c : c \notin {BoldOpen, BoldClose})

\* How many indentation units a text starts with.
RECURSIVE LeadingIndent(_)
LeadingIndent(text) ==
  IF text # <<>> /\ Head(text) = "  " THEN 1 + LeadingIndent(Tail(text)) ELSE 0

\* Whether a text holds the chunk s.
Contains(text, s) == \E i \in 1..Len(text) : text[i] = s

\* One cleared and written line, holding text.
OneLine(text) == <<ClearLine, Write(text)>>

NothingWritten == stdout = <<>> /\ stderr = <<>>
StateKept ==
  /\ groupDepth = pre.groupDepth
  /\ counters = pre.counters
  /\ timers = pre.timers

(* -------------------------------- C1 ------------------------------------ *)
\* C1 as stated: after any sequence of group/groupCollapsed/groupEnd calls,
\* groupDepth = max(0, net increments).
C1_DepthIsMaxZeroNet == groupDepth = (IF net > 0 THEN net ELSE 0)

\* C1 amended: groupDepth = net increments minus the lowest value the running
\* net count has had (0 before the first call); the difference is the number
\* of groupEnd calls made at depth 0, which are no-ops.
C1_DepthIsNetAboveLowest == groupDepth = net - low

\* A groupEnd at depth 0 was followed by a group call.
C1_Witness == low < 0 /\ net > low /\ call.op \in {"group", "groupCollapsed"}

(* -------------------------------- C2 ------------------------------------ *)
\* What each call of Scenario is to write to stdout, styling ignored
\* ("" for the calls that write nothing): as C2 states it, and as amended.
ScenarioLinesAsStated ==
  <<"  outer", "    hello", "      inner", "        world", "", "", "done">>
ScenarioLinesAmended ==
  <<"  outer", "  hello", "    inner", "    world", "", "", "done">>

\* After call number scen of the example run: what it wrote to stdout is the
\* line expected[scen] (nothing for groupEnd), indented by 2 * groupDepth
\* spaces, and nothing went to stderr.
ScenarioWrites(expected) ==
  (formatBuffer = "identity" /\ scen \in 1..Len(Scenario)) =>
    /\ stderr = <<>>
    /\ ~thrown
    /\ IF Scenario[scen].op = "groupEnd"
       THEN stdout = <<>>
       ELSE /\ Len(Lines(stdout)) = 1
            /\ Flatten(Strip(Lines(stdout)[1])) = expected[scen]
            /\ LeadingIndent(Lines(stdout)[1]) = groupDepth
            /\ Len(Flatten(repeat(groupDepth))) = 2 * groupDepth

\* C2 as stated: on a logger with the identity hook, the example run writes
\* to stdout "  outer", "    hello", "      inner", "        world" and
\* "done", in this order, each indented by 2 * groupDepth spaces.
C2_ScenarioLinesAsStated == ScenarioWrites(ScenarioLinesAsStated)

\* C2 amended: the example run writes to stdout "  outer", "  hello",
\* "    inner", "    world" and "done", in this order and nothing else, each
\* indented by 2 * groupDepth spaces (a title and the lines of its group
\* share one indentation).
C2_ScenarioLinesAmended == ScenarioWrites(ScenarioLinesAmended)

\* The example run was made to its end.
C2_Witness ==
  /\ formatBuffer = "identity" /\ scen = Len(Scenario)
  /\ Len(Lines(stdout)) = 1 /\ groupDepth = 0

(* -------------------------------- C3 ------------------------------------ *)
\* The message of the latest call, before indentation and the hook.
Message ==
  CASE call.op \in {"log", "info", "debug", "dirxml", "error", "warn"} ->
         format(call.arg, call.rest)
    [] call.op = "dir" -> <<inspect(call.arg)>>
    [] call.op = "assert" -> errorToString(call.rest[1])
    [] call.op = "count" -> Template(CallLabel, ToStr(counters[CallLabel]))
    [] call.op \in {"group", "groupCollapsed"} -> bold(format(call.arg, call.rest))
    [] call.op = "timeEnd" ->
         Template(CallLabel, formatTime(pre.now - pre.timers[CallLabel].n))
    [] call.op = "timeLog" ->
         Template(CallLabel, formatTime(pre.now - pre.timers[CallLabel].n))
           \o JoinArgs(call.rest)
    [] OTHER -> <<>>

\* C3: every text handed to a sink is formatHook(kind, P + message): P is
\* groupDepth two-space units (for a group title, the depth after the
\* increment), the hook is applied once, after P is prepended, and kind is
\* the method's ("time" for timeEnd and timeLog); a call writes one line at most.
C3_TextIsHookOfIndentedMessage ==
  /\ Len(Lines(stdout)) + Len(Lines(stderr)) <= 1
  /\ \A text \in {Lines(stdout)[i] : i \in 1..Len(Lines(stdout))}
              \cup {Lines(stderr)[i] : i \in 1..Len(Lines(stderr))} :
       /\ text = _formatBuffer(KindOf(call.op), repeat(groupDepth) \o Message)
       /\ call.op \in {"group", "groupCollapsed"} => groupDepth = pre.groupDepth + 1

\* A group title and a timer line were written inside a group under the tagging hook.
C3_Witness ==
  /\ formatBuffer = "tag" /\ groupDepth = 2
  /\ call.op \in {"group", "timeLog"} /\ Len(Lines(stdout)) = 1

(* -------------------------------- C4 ------------------------------------ *)
\* C4: count(L) writes exactly one line "L: k" to stdout, k being the number
\* of count(L) calls since the latest countReset(L) (or since construction),
\* this call included, whatever was counted under other labels.
C4_CountLogsCallsSinceReset ==
  call.op = "count" =>
    /\ ~thrown
    /\ stderr = <<>>
    /\ stdout = OneLine(_formatBuffer("count",
         repeat(groupDepth) \o <<CallLabel, ": ", ToString(countCalls[CallLabel])>>))

(* -------------------------------- C5 ------------------------------------ *)
\* C5: assert never raises; with a falsy value it writes one line to stderr
\* (kind "assert", holding the message, indented by groupDepth) and nothing to
\* stdout; with a truthy value it writes nothing; the state is kept.
C5_AssertNeverThrows ==
  call.op = "assert" =>
    LET m == call.rest[1] IN
    /\ ~thrown
    /\ stdout = <<>>
    /\ StateKept
    /\ IF Truthy(call.arg)
       THEN stderr = <<>>
       ELSE /\ Len(stderr) = 2 /\ stderr[1] = ClearLine /\ stderr[2].ev = "write"
            /\ m # Undefined => Contains(stderr[2].text, m.s)
            /\ stderr[2].text =
                 _formatBuffer("assert", repeat(groupDepth) \o errorToString(m))

\* A failed assert with a message, inside two groups.
C5_Witness ==
  /\ call.op = "assert" /\ ~Truthy(call.arg) /\ call.rest[1] = Str("boom")
  /\ groupDepth = 2 /\ stderr # <<>>

(* -------------------------------- C6 ------------------------------------ *)
\* The elapsed time a timer line of the latest call reports is measured from
\* the instant `from`.
ReportsElapsedFrom(from) ==
  stdout = OneLine(_formatBuffer("time",
    repeat(groupDepth) \o <<CallLabel, ": ", ToString(pre.now - from) \o " ms">>
      \o JoinArgs(call.rest)))

\* C6: time(L) on a running timer keeps the stored start instant and writes
\* nothing; every stored start instant is that of the first time(L) call since
\* the latest timeEnd(L); what timeEnd(L) and timeLog(L) report is measured from
\* it; time(L) records a new instant only when no timer runs under L.
C6_RepeatedTimeKeepsStart ==
  /\ \A l \in DOMAIN timers : timers[l] = DateAt(started[l])
  /\ (call.op = "time" /\ CallLabel \in DOMAIN pre.timers) =>
       timers = pre.timers /\ NothingWritten /\ ~thrown
  /\ (call.op = "time" /\ timers # pre.timers) =>
       /\ CallLabel \notin DOMAIN pre.timers /\ pre.started[CallLabel] = -1
       /\ timers = Put(pre.timers, CallLabel, DateAt(pre.now))
  /\ (call.op \in {"timeEnd", "timeLog"} /\ stdout # <<>>) =>
       ReportsElapsedFrom(pre.started[CallLabel])

\* time(L) was called again, later than the call that started the timer.
C6_Witness ==
  /\ call.op = "time" /\ CallLabel \in DOMAIN pre.timers
  /\ pre.timers[CallLabel].n < pre.now

(* -------------------------------- C7 ------------------------------------ *)
\* C7: timeLog(L) on a running timer writes one line to stdout and keeps the
\* timers as they are; timeEnd(L) on a running timer writes one line and
\* removes that timer alone; both report the time elapsed since the first
\* time(L) call; no other call removes a timer.
C7_TimeLogKeepsTimer ==
  /\ (call.op = "timeLog" /\ CallLabel \in DOMAIN pre.timers) =>
       /\ timers = pre.timers
       /\ ReportsElapsedFrom(pre.started[CallLabel])
       /\ stderr = <<>> /\ ~thrown
  /\ (call.op = "timeEnd" /\ CallLabel \in DOMAIN pre.timers) =>
       /\ timers = Delete(pre.timers, CallLabel)
       /\ ReportsElapsedFrom(pre.started[CallLabel])
       /\ stderr = <<>> /\ ~thrown
  /\ call.op # "timeEnd" => DOMAIN pre.timers \subseteq DOMAIN timers

\* timeLog(L) reported a timer started at an earlier instant, inside a group.
C7_Witness ==
  /\ call.op = "timeLog" /\ CallLabel \in DOMAIN timers
  /\ timers[CallLabel].n < pre.now /\ stdout # <<>> /\ groupDepth > 0

(* -------------------------------- C8 ------------------------------------ *)
\* C8: timeEnd(L) and timeLog(L) on a label with no running timer write
\* nothing, do not raise and keep the state.
C8_NoTimerIsNoOp ==
  (call.op \in {"timeEnd", "timeLog"} /\ CallLabel \notin DOMAIN pre.timers) =>
    NothingWritten /\ ~thrown /\ StateKept

(* -------------------------------- C9 ------------------------------------ *)
StdoutMethods == {"log", "info", "debug", "dir", "dirxml", "count"}
StderrMethods == {"error", "warn"}
SilentMethods == {"constructor", "countReset", "time", "groupEnd", "getBuffer"}

\* A stream got nothing, or one clearLine followed by one written line.
ClearedThenWritten(stream) ==
  Len(stream) = 2 /\ stream[1] = ClearLine /\ stream[2].ev = "write"

\* C9: log, info, debug, dir, dirxml, count, group titles, timeEnd and timeLog
\* write to stdout only; error, warn and a failed assert to stderr only;
\* countReset, time, groupEnd, getBuffer and an untitled group to neither; and
\* each written line follows a clearLine of the same stream.
C9_OneSinkPerMethod ==
  /\ stdout = <<>> \/ ClearedThenWritten(stdout)
  /\ stderr = <<>> \/ ClearedThenWritten(stderr)
  /\ call.op \in StdoutMethods => ClearedThenWritten(stdout) /\ stderr = <<>>
  /\ call.op \in StderrMethods => ClearedThenWritten(stderr) /\ stdout = <<>>
  /\ call.op \in SilentMethods => NothingWritten
  /\ call.op = "assert" =>
       /\ stdout = <<>>
       /\ (stderr # <<>>) = ~Truthy(call.arg)
  /\ call.op \in {"group", "groupCollapsed"} =>
       /\ stderr = <<>>
       /\ (stdout # <<>>) = (call.arg \notin {Undefined, Str("")} \/ call.rest # <<>>)
  /\ call.op \in {"timeEnd", "timeLog"} =>
       /\ stderr = <<>>
       /\ (stdout # <<>>) = (CallLabel \in DOMAIN pre.timers)

\* warn wrote inside a group.
C9_Witness ==
  call.op = "warn" /\ ClearedThenWritten(stderr) /\ stdout = <<>> /\ groupDepth > 0

(* -------------------------------- C10 ----------------------------------- *)
\* C10: groupDepth is a natural number; group and groupCollapsed add 1 to it,
\* with or without a title; groupEnd subtracts 1 above 0 and at 0 keeps the
\* state and writes nothing; no other call changes it.
C10_DepthChangedOnlyByGroups ==
  /\ groupDepth \in Nat
  /\ call.op \in {"group", "groupCollapsed"} => groupDepth = pre.groupDepth + 1
  /\ (call.op = "groupEnd" /\ pre.groupDepth > 0) => groupDepth = pre.groupDepth - 1
  /\ (call.op = "groupEnd" /\ pre.groupDepth = 0) => StateKept /\ NothingWritten /\ ~thrown
  /\ call.op \notin {"group", "groupCollapsed", "groupEnd"} => groupDepth = pre.groupDepth

\* groupEnd was called at depth 0.
C10_Witness == call.op = "groupEnd" /\ pre.groupDepth = 0 /\ groupDepth = 0

====
